---- MODULE Spec2Model ----
(***************************************************************************)
(* Request binding, handler bodies and exception dispatch of the FastAPI   *)
(* application in src/python/src/main.py.                                  *)
(*                                                                         *)
(* Text that the application parses or pattern-checks (path segments,      *)
(* query values, form values, JSON strings) is a sequence of one-character *)
(* strings; names of parameters, keys and classes are plain strings.       *)
(* Python's None and "absent" are the empty option <<>>; a present raw     *)
(* value v, and the value v of a field declared T | None, is <<v>>.        *)
(***************************************************************************)
EXTENDS Integers, Sequences, FiniteSets, TLC

\* fake_items_db and exception_handlers are the module-level objects every
\* request shares; conns[c] is the request served on connection c: its
\* position pc, the request, the bound arguments (values), read_item's
\* local item, the exception in flight (exc), what it printed and the
\* response.
VARIABLES fake_items_db, exception_handlers, conns

vars == <<fake_items_db, exception_handlers, conns>>

-----------------------------------------------------------------------------
(* Bounds of the model.                                                    *)

\* longest path segment supplied for {item_id}
MaxSegLen == 4
\* most occurrences of kek-lol / needy in one query string
MaxOcc == 3
\* largest JSON number supplied for importance
MaxImportance == 6
\* largest JSON number supplied for price and tax
MaxPrice == 1
\* most parts in one form payload
MaxParts == 3
\* requests in flight at the same time
NumConns == 2

-----------------------------------------------------------------------------
(* Options, text and numbers.                                              *)

None == <<>>

Some(v) == <<v>>

EmptyObj == [k \in {} |-> None]

SeqsUpTo(S, n) == UNION {[1..k -> S] : k \in 0..n}

Digit == {"0", "1", "2", "3", "4", "5", "6", "7", "8", "9"}

Letter == {"a", "b", "c", "d", "e", "f", "g", "h", "i", "j", "k", "l", "m",
           "n", "o", "p", "q", "r", "s", "t", "u", "v", "w", "x", "y", "z",
           "F"}

DigitVal(c) ==
    CASE c = "0" -> 0 [] c = "1" -> 1 [] c = "2" -> 2 [] c = "3" -> 3
      [] c = "4" -> 4 [] c = "5" -> 5 [] c = "6" -> 6 [] c = "7" -> 7
      [] c = "8" -> 8 [] c = "9" -> 9

RECURSIVE DigitsVal(_)
DigitsVal(s) ==
    IF s = <<>> THEN 0
    ELSE 10 * DigitsVal(SubSeq(s, 1, Len(s) - 1)) + DigitVal(s[Len(s)])

IsDigits(s) == s # <<>> /\ \A i \in 1..Len(s) : s[i] \in Digit

\* int(text): the number a signed decimal text denotes, None when it is
\* not one
ParseInt(s) ==
    IF IsDigits(s) THEN Some(DigitsVal(s))
    ELSE IF s # <<>> /\ s[1] \in {"-", "+"} /\ IsDigits(Tail(s))
    THEN Some(IF s[1] = "-" THEN 0 - DigitsVal(Tail(s))
              ELSE DigitsVal(Tail(s)))
    ELSE None

\* bool(text) as pydantic reads it
ParseBool(s) ==
    IF s \in {<<"1">>, <<"o", "n">>, <<"t">>, <<"t", "r", "u", "e">>,
              <<"y">>, <<"y", "e", "s">>} THEN Some(TRUE)
    ELSE IF s \in {<<"0">>, <<"o", "f", "f">>, <<"f">>,
                   <<"f", "a", "l", "s", "e">>, <<"n">>, <<"n", "o">>}
    THEN Some(FALSE)
    ELSE None

\* the two patterns of read_item: ^[0-9]*$ and ^[a-zA-Z]*$
ReMatch(re, s) ==
    CASE re = "^[0-9]*$" -> \A i \in 1..Len(s) : s[i] \in Digit
      [] re = "^[a-zA-Z]*$" -> \A i \in 1..Len(s) : s[i] \in Letter

Err(loc, type) == [loc |-> loc, type |-> type]

IdxStr(i) == ToString(i)

-----------------------------------------------------------------------------
(* Raw values: text from the path, the query string or a form, a JSON      *)
(* value of the body, or an uploaded file.                                 *)

JStr(s) == [kind |-> "str", n |-> 0, s |-> s, o |-> EmptyObj]

JNum(n) == [kind |-> "num", n |-> n, s |-> <<>>, o |-> EmptyObj]

JObj(o) == [kind |-> "obj", n |-> 0, s |-> <<>>, o |-> o]

JFile(bytes) == [kind |-> "file", n |-> 0, s |-> bytes, o |-> EmptyObj]

Pair(name, value) == [name |-> name, value |-> value]

\* multi-dict getlist(key): every occurrence, in order of appearance
GetList(multi, key) ==
    LET hits == SelectSeq(multi, LAMBDA p : p.name = key)
    IN  [i \in 1..Len(hits) |-> hits[i].value]

\* multi-dict get(key): the last occurrence, None when there is none
Get(multi, key) ==
    LET all == GetList(multi, key)
    IN  IF all = <<>> THEN None ELSE Some(all[Len(all)])

-----------------------------------------------------------------------------
(* Declarations: one record per parameter of a handler or field of a model.*)

Decl(name, in, type) ==
    [name |-> name, in |-> in, alias |-> name, type |-> type,
     required |-> TRUE, default |-> None, nullable |-> FALSE,
     embed |-> FALSE,
     gt |-> None, ge |-> None, lt |-> None,
     min_length |-> None, max_length |-> None, regex |-> None]

\* T = default
Optional(d, default) == [d EXCEPT !.required = FALSE, !.default = default]

\* T | None = None
Nullable(d) ==
    [d EXCEPT !.required = FALSE, !.default = None, !.nullable = TRUE]

ItemFields ==
    << Decl("name", "model", "str"),
       [Nullable(Decl("description", "model", "str"))
            EXCEPT !.max_length = Some(300)],
       [Decl("price", "model", "float") EXCEPT !.gt = Some(0)],
       Nullable(Decl("tax", "model", "float")),
       Optional(Decl("tags", "model", "list_str"), <<>>),
       Optional(Decl("keks", "model", "set_str"), {}),
       Nullable(Decl("images", "model", "list_Image")) >>

UserFields ==
    << Decl("username", "model", "str"),
       Nullable(Decl("full_name", "model", "str")),
       Nullable(Decl("image", "model", "Image")) >>

UserBaseFields ==
    << Decl("username", "model", "str"),
       Decl("email", "model", "EmailStr"),
       Nullable(Decl("full_name", "model", "str")) >>

UserInFields == UserBaseFields \o << Decl("password", "model", "str") >>

ModelFields(type) ==
    CASE type = "Item" -> ItemFields
      [] type = "User" -> UserFields
      [] type = "UserIn" -> UserInFields

IsModel(type) == type \in {"Item", "User", "UserIn"}

\* create_item without embed=True
create_item_params_not_embedded == << Decl("item", "body", "Item") >>

create_item_params ==
    << [Decl("item", "body", "Item") EXCEPT !.embed = TRUE] >>

\* update_item with importance bounded by ge instead of gt
update_item_params_ge ==
    << Decl("item_id", "path", "int"),
       Decl("item", "body", "Item"),
       Decl("user", "body", "User"),
       [Decl("importance", "body", "int") EXCEPT !.ge = Some(5)] >>

update_item_params ==
    << Decl("item_id", "path", "int"),
       Decl("item", "body", "Item"),
       Decl("user", "body", "User"),
       [Decl("importance", "body", "int") EXCEPT !.gt = Some(5)] >>

\* read_item with the lower bound of item_id left out
read_item_params_no_ge ==
    << [Decl("item_id", "path", "int") EXCEPT !.lt = Some(1000)],
       [Decl("needy", "query", "list_str")
            EXCEPT !.alias = "kek-lol", !.regex = Some("^[0-9]*$")],
       [Nullable(Decl("q", "query", "str"))
            EXCEPT !.min_length = Some(2), !.max_length = Some(5),
                   !.regex = Some("^[a-zA-Z]*$")],
       Optional(Decl("short", "query", "bool"), FALSE) >>

\* read_item with needy read under its own name
read_item_params_no_alias ==
    << [Decl("item_id", "path", "int")
            EXCEPT !.ge = Some(10), !.lt = Some(1000)],
       [Decl("needy", "query", "list_str")
            EXCEPT !.regex = Some("^[0-9]*$")],
       [Nullable(Decl("q", "query", "str"))
            EXCEPT !.min_length = Some(2), !.max_length = Some(5),
                   !.regex = Some("^[a-zA-Z]*$")],
       Optional(Decl("short", "query", "bool"), FALSE) >>

read_item_params ==
    << [Decl("item_id", "path", "int")
            EXCEPT !.ge = Some(10), !.lt = Some(1000)],
       [Decl("needy", "query", "list_str")
            EXCEPT !.alias = "kek-lol", !.regex = Some("^[0-9]*$")],
       [Nullable(Decl("q", "query", "str"))
            EXCEPT !.min_length = Some(2), !.max_length = Some(5),
                   !.regex = Some("^[a-zA-Z]*$")],
       Optional(Decl("short", "query", "bool"), FALSE) >>

create_user_params == << Decl("user_in", "body", "UserIn") >>

login_params ==
    << [Decl("username", "form", "str") EXCEPT !.embed = TRUE],
       [Decl("password", "form", "str") EXCEPT !.embed = TRUE] >>

create_file_params ==
    << [Decl("file", "form", "bytes") EXCEPT !.embed = TRUE],
       [Decl("fileb", "form", "UploadFile") EXCEPT !.embed = TRUE],
       [Decl("token", "form", "str") EXCEPT !.embed = TRUE] >>

read_items_params ==
    << Optional(Decl("skip", "query", "int"), 0),
       Optional(Decl("limit", "query", "int"), 10) >>

Params(endpoint) ==
    CASE endpoint = "create_item" -> create_item_params
      [] endpoint = "update_item" -> update_item_params
      [] endpoint = "read_item" -> read_item_params
      [] endpoint = "create_user" -> create_user_params
      [] endpoint = "login" -> login_params
      [] endpoint = "create_file" -> create_file_params
      [] endpoint = "read_items" -> read_items_params

-----------------------------------------------------------------------------
(* Validation of one declared field: coercion to the declared type, then   *)
(* the declared constraints.  A field reports the first constraint that    *)
(* fails; a list reports every failing element; a model reports every      *)
(* failing field.                                                          *)

Ok(v) == [value |-> v, errors |-> <<>>]

Bad(errs) == [value |-> None, errors |-> errs]

DigitChar(n) ==
    CASE n = 0 -> "0" [] n = 1 -> "1" [] n = 2 -> "2" [] n = 3 -> "3"
      [] n = 4 -> "4" [] n = 5 -> "5" [] n = 6 -> "6" [] n = 7 -> "7"
      [] n = 8 -> "8" [] n = 9 -> "9"

RECURSIVE IntToStr(_)
IntToStr(n) ==
    IF n < 0 THEN <<"-">> \o IntToStr(0 - n)
    ELSE IF n < 10 THEN <<DigitChar(n)>>
    ELSE Append(IntToStr(n \div 10), DigitChar(n % 10))

CoerceInt(raw) ==
    CASE raw.kind = "num" -> Some(raw.n)
      [] raw.kind = "str" -> ParseInt(raw.s)
      [] OTHER -> None

CoerceStr(raw) ==
    CASE raw.kind = "str" -> Some(raw.s)
      [] raw.kind = "num" -> Some(IntToStr(raw.n))
      [] OTHER -> None

CoerceBool(raw) ==
    CASE raw.kind = "str" -> ParseBool(raw.s)
      [] raw.kind = "num" /\ raw.n \in {0, 1} -> Some(raw.n = 1)
      [] OTHER -> None

\* local@domain.tld
IsEmail(s) ==
    \E i \in 2..Len(s) :
        /\ s[i] = "@"
        /\ \A j \in 1..Len(s) : s[j] = "@" => j = i
        /\ \E k \in (i + 2)..(Len(s) - 1) : s[k] = "."

ConstrainNumber(d, n, loc) ==
    IF d.gt # None /\ ~(n > d.gt[1])
    THEN <<Err(loc, "value_error.number.not_gt")>>
    ELSE IF d.ge # None /\ ~(n >= d.ge[1])
    THEN <<Err(loc, "value_error.number.not_ge")>>
    ELSE IF d.lt # None /\ ~(n < d.lt[1])
    THEN <<Err(loc, "value_error.number.not_lt")>>
    ELSE <<>>

ConstrainStr(d, s, loc) ==
    IF d.min_length # None /\ Len(s) < d.min_length[1]
    THEN <<Err(loc, "value_error.any_str.min_length")>>
    ELSE IF d.max_length # None /\ Len(s) > d.max_length[1]
    THEN <<Err(loc, "value_error.any_str.max_length")>>
    ELSE IF d.regex # None /\ ~ReMatch(d.regex[1], s)
    THEN <<Err(loc, "value_error.str.regex")>>
    ELSE <<>>

ValidateNumber(d, raw, loc, type_error) ==
    LET n == CoerceInt(raw)
    IN  IF n = None THEN Bad(<<Err(loc, type_error)>>)
        ELSE LET e == ConstrainNumber(d, n[1], loc)
             IN  IF e = <<>> THEN Ok(n[1]) ELSE Bad(e)

ValidateStr(d, raw, loc) ==
    LET s == CoerceStr(raw)
    IN  IF s = None THEN Bad(<<Err(loc, "type_error.str")>>)
        ELSE LET e == ConstrainStr(d, s[1], loc)
             IN  IF e = <<>> THEN Ok(s[1]) ELSE Bad(e)

RECURSIVE ValidateList(_, _, _, _)
ValidateList(d, raws, loc, i) ==
    IF i > Len(raws) THEN Ok(<<>>)
    ELSE LET here == ValidateStr(d, raws[i], loc \o <<IdxStr(i - 1)>>)
             rest == ValidateList(d, raws, loc, i + 1)
         IN  IF here.errors \o rest.errors = <<>>
             THEN Ok(<<here.value>> \o rest.value)
             ELSE Bad(here.errors \o rest.errors)

RECURSIVE ValidateType(_, _, _)
RECURSIVE ValidateFields(_, _, _, _)
ValidateType(d, raw, loc) ==
    CASE d.type = "int" -> ValidateNumber(d, raw, loc, "type_error.integer")
      [] d.type = "float" -> ValidateNumber(d, raw, loc, "type_error.float")
      [] d.type = "str" -> ValidateStr(d, raw, loc)
      [] d.type = "EmailStr" ->
            LET r == ValidateStr(d, raw, loc)
            IN  IF r.errors = <<>> /\ ~IsEmail(r.value)
                THEN Bad(<<Err(loc, "value_error.email")>>)
                ELSE r
      [] d.type = "bool" ->
            LET b == CoerceBool(raw)
            IN  IF b = None THEN Bad(<<Err(loc, "type_error.bool")>>)
                ELSE Ok(b[1])
      [] d.type = "list_str" -> ValidateList(d, raw, loc, 1)
      [] d.type = "bytes" ->
            IF raw.kind \in {"file", "str"} THEN Ok(raw.s)
            ELSE Bad(<<Err(loc, "type_error.bytes")>>)
      [] d.type = "UploadFile" ->
            IF raw.kind = "file" THEN Ok(raw)
            ELSE Bad(<<Err(loc, "value_error")>>)
      [] IsModel(d.type) ->
            IF raw.kind # "obj" THEN Bad(<<Err(loc, "type_error.dict")>>)
            ELSE LET r == ValidateFields(ModelFields(d.type), raw.o, loc, 1)
                 IN  IF r.errors = <<>> THEN Ok(r.value) ELSE Bad(r.errors)

ValidateField(d, raw, loc) ==
    LET r == ValidateType(d, raw, loc)
    IN  IF d.nullable /\ r.errors = <<>> THEN Ok(Some(r.value)) ELSE r

\* the fields of a model, in the order the class declares them
ValidateFields(fields, obj, loc, i) ==
    IF i > Len(fields) THEN [value |-> EmptyObj, errors |-> <<>>]
    ELSE LET d == fields[i]
             here == IF d.alias \in DOMAIN obj
                     THEN ValidateField(d, obj[d.alias], loc \o <<d.alias>>)
                     ELSE IF d.required
                     THEN Bad(<<Err(loc \o <<d.alias>>, "value_error.missing")>>)
                     ELSE Ok(d.default)
             rest == ValidateFields(fields, obj, loc, i + 1)
         IN  [value |-> (d.name :> here.value) @@ rest.value,
              errors |-> here.errors \o rest.errors]

-----------------------------------------------------------------------------
(* Extraction and binding of the declared parameters of a handler.         *)

Source(d, req) ==
    CASE d.in = "path" -> req.path_params
      [] d.in = "query" -> req.query
      [] d.in = "form" -> req.form

\* a body is read by key when several parameters share it or one asks to
\* be embedded; otherwise the whole body is the one parameter's value
Embedded(body_params) == Len(body_params) > 1 \/ body_params[1].embed

BodyParams(decls) == SelectSeq(decls, LAMBDA d : d.in \in {"body", "form"})

Loc(d, decls) ==
    IF d.in \in {"path", "query"} THEN <<d.in, d.alias>>
    ELSE IF Embedded(BodyParams(decls)) THEN <<"body", d.alias>>
    ELSE <<"body">>

\* the raw value of a parameter, None when the request does not carry it
Extract(d, decls, req) ==
    CASE d.in \in {"path", "query"} /\ d.type = "list_str" ->
            LET all == GetList(Source(d, req), d.alias)
            IN  IF all # <<>> THEN Some([i \in 1..Len(all) |-> JStr(all[i])])
                ELSE IF d.required THEN None ELSE Some(d.default)
      [] d.in \in {"path", "query"} /\ d.type # "list_str" ->
            LET v == Get(Source(d, req), d.alias)
            IN  IF v = None THEN None ELSE Some(JStr(v[1]))
      [] d.in = "form" ->
            LET v == Get(req.form, d.alias)
            IN  IF v # None /\ v[1] = JStr(<<>>) THEN None ELSE v
      [] d.in = "body" /\ ~Embedded(BodyParams(decls)) -> req.body
      [] d.in = "body" /\ Embedded(BodyParams(decls)) ->
            IF req.body = None THEN None
            ELSE IF req.body[1].kind # "obj" THEN None
            ELSE IF d.alias \in DOMAIN req.body[1].o
            THEN Some(req.body[1].o[d.alias])
            ELSE None

BindOne(d, decls, req) ==
    LET raw == Extract(d, decls, req)
    IN  IF raw = None
        THEN IF d.required
             THEN Bad(<<Err(Loc(d, decls), "value_error.missing")>>)
             ELSE Ok(d.default)
        ELSE ValidateField(d, raw[1], Loc(d, decls))

\* a binder that gives up at the first parameter that fails
RECURSIVE BindAll_first_error(_, _, _, _)
BindAll_first_error(order, decls, req, i) ==
    IF i > Len(order) THEN [value |-> EmptyObj, errors |-> <<>>]
    ELSE LET here == BindOne(order[i], decls, req)
             rest == BindAll_first_error(order, decls, req, i + 1)
         IN  IF here.errors # <<>>
             THEN [value |-> EmptyObj, errors |-> here.errors]
             ELSE [value |-> (order[i].name :> here.value) @@ rest.value,
                   errors |-> rest.errors]

RECURSIVE BindAll(_, _, _, _)
BindAll(order, decls, req, i) ==
    IF i > Len(order) THEN [value |-> EmptyObj, errors |-> <<>>]
    ELSE LET here == BindOne(order[i], decls, req)
             rest == BindAll(order, decls, req, i + 1)
         IN  [value |-> (order[i].name :> here.value) @@ rest.value,
              errors |-> here.errors \o rest.errors]

\* path parameters first, then query parameters, then the body
BindOrder(decls) ==
    SelectSeq(decls, LAMBDA d : d.in = "path")
        \o SelectSeq(decls, LAMBDA d : d.in = "query")
        \o BodyParams(decls)

Bind(endpoint, req) ==
    BindAll(BindOrder(Params(endpoint)), Params(endpoint), req, 1)

-----------------------------------------------------------------------------
(* Exceptions, responses and the exception-handler registry.               *)

UnicornException(item_id) ==
    [cls |-> "UnicornException", attrs |-> ("item_id" :> item_id)]

HTTPException(status_code, detail, headers) ==
    [cls |-> "HTTPException",
     attrs |-> [status_code |-> status_code, detail |-> detail,
                headers |-> headers]]

RequestValidationError(errs) ==
    [cls |-> "RequestValidationError", attrs |-> [errors |-> errs]]

AttributeError(name) ==
    [cls |-> "AttributeError", attrs |-> [name |-> name]]

NoExc == [cls |-> "", attrs |-> EmptyObj]

\* the classes of an exception, most specific first
MRO(cls) ==
    CASE cls = "UnicornException" -> <<"UnicornException", "Exception">>
      [] cls = "HTTPException" ->
            <<"HTTPException", "StarletteHTTPException", "Exception">>
      [] cls = "RequestValidationError" ->
            <<"RequestValidationError", "ValidationError", "ValueError",
              "Exception">>
      [] cls = "AttributeError" -> <<"AttributeError", "Exception">>

Response(status_code, body, headers) ==
    [status_code |-> status_code, body |-> body, headers |-> headers]

NoResponse == Response(0, EmptyObj, {})

\* the handlers FastAPI() installs before the module registers its own
DefaultHandlers ==
    ("StarletteHTTPException" :> "http_exception_handler")
        @@ ("RequestValidationError" :> "request_validation_exception_handler")

\* @app.exception_handler(cls)
Register(handlers, cls, fn) ==
    [c \in DOMAIN handlers \cup {cls} |->
        IF c = cls THEN fn ELSE handlers[c]]

\* the registry without the module's StarletteHTTPException handler
AppHandlers_no_http ==
    Register(
        Register(DefaultHandlers,
                 "UnicornException", "unicorn_exception_handler"),
        "RequestValidationError", "validation_exception_handler")

\* the registry once the module is imported
AppHandlers ==
    Register(
        Register(
            Register(DefaultHandlers,
                     "UnicornException", "unicorn_exception_handler"),
            "StarletteHTTPException", "custom_http_exception_handler"),
        "RequestValidationError", "validation_exception_handler")

\* the handler of the most specific registered class, None without one
LookupHandler(handlers, cls) ==
    LET hits == SelectSeq(MRO(cls), LAMBDA c : c \in DOMAIN handlers)
    IN  IF hits = <<>> THEN None ELSE Some(handlers[hits[1]])

-----------------------------------------------------------------------------
(* One request on a connection, step by step.                              *)

NoRequest ==
    [endpoint |-> "", path_params |-> <<>>, query |-> <<>>, body |-> None,
     form |-> <<>>]

IdleConn ==
    [pc |-> "idle", request |-> NoRequest, values |-> EmptyObj,
     item |-> EmptyObj, exc |-> NoExc, printed |-> <<>>,
     response |-> NoResponse]

Accept(req) == [IdleConn EXCEPT !.pc = "received", !.request = req]

Printed(conn, text) == [conn EXCEPT !.printed = Append(@, text)]

Raise(conn, e) == [conn EXCEPT !.exc = e, !.pc = "raised"]

Return(conn, status_code, content) ==
    [conn EXCEPT !.response = Response(status_code, content, {}),
                 !.pc = "responded"]

\* the binder: every declared parameter, then the call or a 422
BindStep(conn) ==
    LET b == Bind(conn.request.endpoint, conn.request)
    IN  IF b.errors = <<>>
        THEN [conn EXCEPT !.values = b.value, !.pc = "call"]
        ELSE Raise(conn, RequestValidationError(b.errors))

Truthy(opt) == opt # None /\ opt[1] # <<>>

\* read_item with the first comparison off by one
read_item_check_le(conn) ==
    IF conn.values["item_id"] <= 20
    THEN Raise(conn, HTTPException(404, "Item not found",
                        {Pair("X-Error", "There goes my error")}))
    ELSE [conn EXCEPT !.pc = "l205"]

\* read_item, lines 197-204
read_item_check(conn) ==
    IF conn.values["item_id"] < 20
    THEN Raise(conn, HTTPException(404, "Item not found",
                        {Pair("X-Error", "There goes my error")}))
    ELSE IF conn.values["item_id"] = 20
    THEN Raise(conn, UnicornException(conn.values["item_id"]))
    ELSE [conn EXCEPT !.pc = "l205"]

\* read_item, line 205
read_item_build(conn) ==
    [conn EXCEPT !.item = ("item_id" :> conn.values["item_id"])
                            @@ ("needy" :> conn.values["needy"]),
                 !.pc = "l206"]

\* read_item, lines 206-207
read_item_q(conn) ==
    IF Truthy(conn.values["q"])
    THEN [conn EXCEPT !.item = ("q" :> conn.values["q"][1]) @@ conn.item,
                      !.pc = "l208"]
    ELSE [conn EXCEPT !.pc = "l208"]

\* read_item, lines 208-211
read_item_short(conn) ==
    IF ~conn.values["short"]
    THEN [conn EXCEPT !.item = ("description" :> "This is an amazing item that has a long description")
                                    @@ conn.item,
                      !.pc = "l212"]
    ELSE [conn EXCEPT !.pc = "l212"]

\* read_item, line 212
read_item_return(conn) == Return(conn, 200, conn.item)

\* create_item, lines 170-175
create_item(conn) ==
    LET it == conn.values["item"]
        item_dict == it
    IN  IF it["tax"] # None /\ it["tax"][1] # 0
        THEN Return(conn, 201,
                    ("price_with_tax" :> it["price"] + it["tax"][1])
                        @@ item_dict)
        ELSE Return(conn, 201, item_dict)

\* update_item, lines 181-182
update_item(conn) == Return(conn, 200, conn.values)

fake_password_hasher(raw_password) ==
    <<"s", "u", "p", "e", "r", "s", "e", "c", "r", "e", "t">> \o raw_password

fake_save_user(user_in) ==
    [username |-> user_in["username"], email |-> user_in["email"],
     full_name |-> user_in["full_name"],
     hashed_password |-> fake_password_hasher(user_in["password"])]

\* create_user, lines 300-303: the saved user through response_model UserOut
create_user(conn) ==
    LET user_saved == fake_save_user(conn.values["user_in"])
    IN  Return(Printed(conn, "User saved! ..not really"), 200,
               [username |-> user_saved.username, email |-> user_saved.email,
                full_name |-> user_saved.full_name])

\* login, line 308
login(conn) == Return(conn, 200, [username |-> conn.values["username"]])

\* create_file, lines 317-320
create_file(conn) ==
    IF conn.values["file"] = <<>>
    THEN Return(conn, 200, [message |-> "No file sent"])
    ELSE Return(conn, 200, [file_size |-> Len(conn.values["file"])])

\* seq[a : b] as Python slices a list
PySlice(seq, a, b) ==
    LET n == Len(seq)
        clamp(i) == IF i < 0 THEN (IF n + i < 0 THEN 0 ELSE n + i)
                    ELSE IF i > n THEN n ELSE i
    IN  SubSeq(seq, clamp(a) + 1, clamp(b))

\* read_items, line 150
read_items(conn, db) ==
    Return(conn, 200,
           PySlice(db, conn.values["skip"],
                   conn.values["skip"] + conn.values["limit"]))

\* lines 93-98: the message is built from exc.name
unicorn_exception_handler(conn) ==
    IF "name" \in DOMAIN conn.exc.attrs
    THEN [conn EXCEPT
            !.response = Response(418, [message |-> conn.exc.attrs["name"]], {}),
            !.pc = "responded"]
    ELSE [conn EXCEPT !.exc = AttributeError("name"), !.pc = "server_error"]

\* fastapi's http_exception_handler: the exception's status, detail, headers
http_exception_handler(conn) ==
    [conn EXCEPT
        !.response = Response(conn.exc.attrs.status_code,
                              [detail |-> conn.exc.attrs.detail],
                              conn.exc.attrs.headers),
        !.pc = "responded"]

\* lines 105-108
custom_http_exception_handler(conn) ==
    http_exception_handler(Printed(conn, "OMG! An HTTP error!"))

\* fastapi's request_validation_exception_handler: 422 and every error
request_validation_exception_handler(conn) ==
    [conn EXCEPT
        !.response = Response(422, [detail |-> conn.exc.attrs.errors], {}),
        !.pc = "responded"]

\* lines 119-122
validation_exception_handler(conn) ==
    request_validation_exception_handler(
        Printed(conn, "OMG! The client sent invalid data!"))

RunHandler(fn, conn) ==
    CASE fn = "unicorn_exception_handler" -> unicorn_exception_handler(conn)
      [] fn = "custom_http_exception_handler" ->
            custom_http_exception_handler(conn)
      [] fn = "http_exception_handler" -> http_exception_handler(conn)
      [] fn = "validation_exception_handler" ->
            validation_exception_handler(conn)
      [] fn = "request_validation_exception_handler" ->
            request_validation_exception_handler(conn)

\* the exception middleware: the handler of the raised exception's class
DispatchStep(conn, handlers) ==
    LET h == LookupHandler(handlers, conn.exc.cls)
    IN  IF h = None THEN [conn EXCEPT !.pc = "server_error"]
        ELSE RunHandler(h[1], conn)

\* the server's catch-all for an exception no handler turned into a response
ServerErrorStep(conn) ==
    [conn EXCEPT
        !.response = Response(500, [text |-> "Internal Server Error"], {}),
        !.pc = "responded"]

-----------------------------------------------------------------------------
(* The requests supplied.                                                  *)

Request(endpoint, path_params, query, body, form) ==
    [endpoint |-> endpoint, path_params |-> path_params, query |-> query,
     body |-> body, form |-> form]

\* every object with keys among K and values among V
Objects(K, V) == UNION {[S -> V] : S \in SUBSET K}

PathAlphabet == {"0", "1", "2", "-", "x"}

Segs == SeqsUpTo(PathAlphabet, MaxSegLen) \ {<<>>}

SampleSegs == {<<"1">>, <<"1", "0">>, <<"2", "0">>, <<"2", "1">>}

KekNeedy ==
    SeqsUpTo({Pair("kek-lol", <<"1">>), Pair("kek-lol", <<"2">>),
              Pair("kek-lol", <<"x">>), Pair("needy", <<"1">>)}, MaxOcc)

QOpts ==
    {<<>>, <<Pair("q", <<"a", "b">>)>>, <<Pair("q", <<"a">>)>>,
     <<Pair("q", <<"a", "1">>)>>}

ShortOpts ==
    {<<>>, <<Pair("short", <<"1">>)>>, <<Pair("short", <<"n", "o">>)>>,
     <<Pair("short", <<"x">>)>>}

Queries == {kn \o q \o sh : kn \in KekNeedy, q \in QOpts, sh \in ShortOpts}

SampleQueries ==
    {<<>>, <<Pair("kek-lol", <<"1">>)>>,
     <<Pair("kek-lol", <<"1">>), Pair("q", <<"a", "b">>),
       Pair("short", <<"1">>)>>}

ReadItemRequests ==
    {Request("read_item", <<Pair("item_id", seg)>>, q, None, <<>>) :
        seg \in Segs, q \in SampleQueries}
    \cup
    {Request("read_item", <<Pair("item_id", seg)>>, q, None, <<>>) :
        seg \in SampleSegs, q \in Queries}

SkipLimit == {<<>>, <<"0">>, <<"1">>, <<"2">>, <<"x">>}

ReadItemsRequests ==
    {Request("read_items", <<>>,
             (IF sk = <<>> THEN <<>> ELSE <<Pair("skip", sk)>>)
                \o (IF li = <<>> THEN <<>> ELSE <<Pair("limit", li)>>),
             None, <<>>) :
        sk \in SkipLimit, li \in SkipLimit}

ItemObjs ==
    Objects({"name", "price", "tax"},
            {JStr(<<"F">>)} \cup {JNum(n) : n \in 0..MaxPrice})

UserObjs == Objects({"username"}, {JStr(<<"u">>)})

UserInObjs ==
    Objects({"username", "email", "password"},
            {JStr(<<"u">>), JStr(<<"a", "@", "b", ".", "c">>)})

ImportanceVals == {JNum(n) : n \in 0..MaxImportance} \cup {JStr(<<"x">>)}

\* an object with the given keys, a key left out where its option is None
Obj3(k1, v1, k2, v2, k3, v3) ==
    LET K == (IF v1 = None THEN {} ELSE {k1})
                \cup (IF v2 = None THEN {} ELSE {k2})
                \cup (IF v3 = None THEN {} ELSE {k3})
    IN  [k \in K |-> IF k = k1 THEN v1[1] ELSE IF k = k2 THEN v2[1] ELSE v3[1]]

Opt(S) == {None} \cup {Some(v) : v \in S}

\* bodies keyed by the body parameters of update_item and create_item
KeyedBodies ==
    {JObj(Obj3("item", it, "user", us, "importance", im)) :
        it \in Opt({JObj(o) : o \in ItemObjs} \cup {JNum(1)}),
        us \in Opt({JObj(o) : o \in UserObjs}),
        im \in Opt(ImportanceVals)}
    \cup {JObj("user_in" :> JObj(o)) : o \in UserInObjs}

\* bodies that are the model object itself
DirectBodies == {JObj(o) : o \in UserInObjs \cup ItemObjs}

ValidUserIn ==
    [username |-> JStr(<<"u">>), email |-> JStr(<<"a", "@", "b", ".", "c">>),
     password |-> JStr(<<"u">>)]

ValidItem == [name |-> JStr(<<"F">>), price |-> JNum(1)]

\* bodies carrying both shapes at once
MixedBodies ==
    {JObj(("item" :> JObj(ValidItem)) @@ ValidUserIn),
     JObj(("user_in" :> JObj(ValidUserIn)) @@ ValidUserIn)}

Bodies ==
    {None, Some(JNum(1))}
        \cup {Some(b) : b \in KeyedBodies \cup DirectBodies \cup MixedBodies}

CreateItemRequests ==
    {Request("create_item", <<>>, <<>>, b, <<>>) : b \in Bodies}

CreateUserRequests ==
    {Request("create_user", <<>>, <<>>, b, <<>>) : b \in Bodies}

UpdateItemRequests ==
    {Request("update_item", <<Pair("item_id", seg)>>, <<>>, b, <<>>) :
        seg \in {<<"1">>, <<"x">>}, b \in Bodies}

LoginRequests ==
    {Request("login", <<>>, <<>>, None, f) :
        f \in SeqsUpTo({Pair(n, v) : n \in {"username", "password"},
                                     v \in {JStr(<<"u">>), JStr(<<>>)}},
                       MaxParts)}

CreateFileRequests ==
    {Request("create_file", <<>>, <<>>, None, f) :
        f \in SeqsUpTo({Pair(n, v) : n \in {"file", "fileb", "token"},
                                     v \in {JFile(<<"b">>), JFile(<<>>),
                                            JStr(<<"t">>)}},
                       MaxParts)}

\* a few requests of every endpoint, for the interleavings
SampleRequests ==
    {Request("read_items", <<>>, <<>>, None, <<>>),
     Request("read_items", <<>>, <<Pair("skip", <<"1">>),
                                  Pair("limit", <<"1">>)>>, None, <<>>),
     Request("create_item", <<>>, <<>>,
             Some(JObj("item" :> JObj([name |-> JStr(<<"F">>),
                                       price |-> JNum(1),
                                       tax |-> JNum(1)]))), <<>>),
     Request("create_item", <<>>, <<>>, Some(JObj(ValidItem)), <<>>),
     Request("read_item", <<Pair("item_id", <<"1", "0">>)>>,
             <<Pair("kek-lol", <<"1">>)>>, None, <<>>),
     Request("read_item", <<Pair("item_id", <<"2", "0">>)>>,
             <<Pair("kek-lol", <<"1">>)>>, None, <<>>),
     Request("read_item", <<Pair("item_id", <<"2", "1">>)>>,
             <<Pair("kek-lol", <<"1">>)>>, None, <<>>),
     Request("update_item", <<Pair("item_id", <<"1">>)>>, <<>>,
             Some(JObj(Obj3("item", Some(JObj(ValidItem)),
                            "user", Some(JObj([username |-> JStr(<<"u">>)])),
                            "importance", Some(JNum(MaxImportance))))),
             <<>>),
     Request("create_user", <<>>, <<>>, Some(JObj(ValidUserIn)), <<>>),
     Request("login", <<>>, <<>>, None,
             <<Pair("username", JStr(<<"u">>)),
               Pair("password", JStr(<<"u">>))>>),
     Request("create_file", <<>>, <<>>, None,
             <<Pair("file", JFile(<<"b">>)), Pair("fileb", JFile(<<"b">>)),
               Pair("token", JStr(<<"t">>))>>)}

-----------------------------------------------------------------------------
(* Actions.                                                                *)

Conns == 1..NumConns

At(c, at) == conns[c].pc = at

Calls(c, endpoint) == conns[c].request.endpoint = endpoint

Becomes(c, next) ==
    /\ conns' = [conns EXCEPT ![c] = next]
    /\ UNCHANGED <<fake_items_db, exception_handlers>>

ReceiveReadItem(c) ==
    /\ At(c, "idle")
    /\ \E req \in ReadItemRequests : Becomes(c, Accept(req))

ReceiveReadItems(c) ==
    /\ At(c, "idle")
    /\ \E req \in ReadItemsRequests : Becomes(c, Accept(req))

ReceiveCreateItem(c) ==
    /\ At(c, "idle")
    /\ \E req \in CreateItemRequests : Becomes(c, Accept(req))

ReceiveUpdateItem(c) ==
    /\ At(c, "idle")
    /\ \E req \in UpdateItemRequests : Becomes(c, Accept(req))

ReceiveCreateUser(c) ==
    /\ At(c, "idle")
    /\ \E req \in CreateUserRequests : Becomes(c, Accept(req))

ReceiveLogin(c) ==
    /\ At(c, "idle")
    /\ \E req \in LoginRequests : Becomes(c, Accept(req))

ReceiveCreateFile(c) ==
    /\ At(c, "idle")
    /\ \E req \in CreateFileRequests : Becomes(c, Accept(req))

ReceiveSample(c) ==
    /\ At(c, "idle")
    /\ \E req \in SampleRequests : Becomes(c, Accept(req))

BindRequest(c) ==
    /\ At(c, "received")
    /\ Becomes(c, BindStep(conns[c]))

ReadItemCheck(c) ==
    /\ At(c, "call") /\ Calls(c, "read_item")
    /\ Becomes(c, read_item_check(conns[c]))

ReadItemBuild(c) ==
    /\ At(c, "l205")
    /\ Becomes(c, read_item_build(conns[c]))

ReadItemQ(c) ==
    /\ At(c, "l206")
    /\ Becomes(c, read_item_q(conns[c]))

ReadItemShort(c) ==
    /\ At(c, "l208")
    /\ Becomes(c, read_item_short(conns[c]))

ReadItemReturn(c) ==
    /\ At(c, "l212")
    /\ Becomes(c, read_item_return(conns[c]))

\* read_items taking its slice out of the shared list
ReadItems_pop(c) ==
    /\ At(c, "call") /\ Calls(c, "read_items")
    /\ conns' = [conns EXCEPT ![c] = read_items(conns[c], fake_items_db)]
    /\ fake_items_db' = SubSeq(fake_items_db, 1, Len(fake_items_db)
                                - Len(conns'[c].response.body))
    /\ UNCHANGED exception_handlers

ReadItems(c) ==
    /\ At(c, "call") /\ Calls(c, "read_items")
    /\ Becomes(c, read_items(conns[c], fake_items_db))

CreateItem(c) ==
    /\ At(c, "call") /\ Calls(c, "create_item")
    /\ Becomes(c, create_item(conns[c]))

UpdateItem(c) ==
    /\ At(c, "call") /\ Calls(c, "update_item")
    /\ Becomes(c, update_item(conns[c]))

CreateUser(c) ==
    /\ At(c, "call") /\ Calls(c, "create_user")
    /\ Becomes(c, create_user(conns[c]))

Login(c) ==
    /\ At(c, "call") /\ Calls(c, "login")
    /\ Becomes(c, login(conns[c]))

CreateFile(c) ==
    /\ At(c, "call") /\ Calls(c, "create_file")
    /\ Becomes(c, create_file(conns[c]))

Dispatch(c) ==
    /\ At(c, "raised")
    /\ Becomes(c, DispatchStep(conns[c], exception_handlers))

ServerError(c) ==
    /\ At(c, "server_error")
    /\ Becomes(c, ServerErrorStep(conns[c]))

\* the response is sent and the connection takes the next request
Finish(c) ==
    /\ At(c, "responded")
    /\ Becomes(c, IdleConn)

Serve(c) ==
    \/ BindRequest(c)
    \/ ReadItemCheck(c)
    \/ ReadItemBuild(c)
    \/ ReadItemQ(c)
    \/ ReadItemShort(c)
    \/ ReadItemReturn(c)
    \/ ReadItems(c)
    \/ CreateItem(c)
    \/ UpdateItem(c)
    \/ CreateUser(c)
    \/ Login(c)
    \/ CreateFile(c)
    \/ Dispatch(c)
    \/ ServerError(c)
    \/ Finish(c)

Init ==
    /\ fake_items_db = <<"Foo", "Bar", "Baz">>
    /\ exception_handlers = AppHandlers
    /\ conns = [c \in Conns |-> IdleConn]

\* one request at a time, every supplied request
Next ==
    \/ ReceiveReadItem(1)
    \/ ReceiveReadItems(1)
    \/ ReceiveCreateItem(1)
    \/ ReceiveUpdateItem(1)
    \/ ReceiveCreateUser(1)
    \/ ReceiveLogin(1)
    \/ ReceiveCreateFile(1)
    \/ Serve(1)

Spec == Init /\ [][Next]_vars

\* requests of every endpoint in flight on all connections
NextConc == \E c \in Conns : ReceiveSample(c) \/ Serve(c)

SpecConc == Init /\ [][NextConc]_vars

-----------------------------------------------------------------------------
(* Properties.                                                             *)

ReadItemConn(c) == conns[c].request.endpoint = "read_item"

Responded(c) == conns[c].pc = "responded"

\* the arguments of the request on c were bound and the handler was called
BoundCall(c) == DOMAIN conns[c].values # {}

PathText(c) == conns[c].request.path_params[1].value

Detail(c) == conns[c].response.body.detail

\* the entries of a 422 body located at loc
EntriesAt(c, loc) == {i \in 1..Len(Detail(c)) : Detail(c)[i].loc = loc}

\* C1: GET /item/20 with otherwise valid parameters ends with status 418
\* and a body naming the identifier the handler put in the exception, never
\* with the server's 500.
C1_UnicornGets418 ==
    \A c \in Conns :
        (ReadItemConn(c) /\ Responded(c) /\ BoundCall(c)
            /\ conns[c].values["item_id"] = 20)
        => /\ conns[c].response.status_code = 418
           /\ conns[c].response.body = [message |-> 20]

\* C2: an item_id that is an integer below 10 never reaches the body of
\* read_item; the response is 422 with an entry at ["path", "item_id"] whose
\* type is the lower-bound violation.
C2_BelowTenIs422 ==
    \A c \in Conns :
        (ReadItemConn(c) /\ ParseInt(PathText(c)) # None
            /\ ParseInt(PathText(c))[1] < 10)
        => /\ conns[c].pc \in {"received", "raised", "responded"}
           /\ conns[c].pc = "raised"
                => conns[c].exc.cls = "RequestValidationError"
           /\ Responded(c)
                => /\ conns[c].response.status_code = 422
                   /\ \E i \in EntriesAt(c, <<"path", "item_id">>) :
                        Detail(c)[i].type = "value_error.number.not_ge"

C2_Witness ==
    \E c \in Conns :
        /\ ReadItemConn(c) /\ Responded(c)
        /\ PathText(c) = <<"2">>
        /\ conns[c].response.status_code = 422
        /\ Cardinality(EntriesAt(c, <<"path", "item_id">>)) = 1

\* the parameter is carried by the request (a form part with empty text
\* counts as not sent)
Carries(req, d) ==
    IF d.in = "form"
    THEN \E i \in 1..Len(req.form) :
            /\ req.form[i].name = d.alias
            /\ \A j \in (i + 1)..Len(req.form) : req.form[j].name # d.alias
            /\ req.form[i].value # JStr(<<>>)
    ELSE /\ req.body # None
         /\ req.body[1].kind = "obj"
         /\ d.alias \in DOMAIN req.body[1].o

\* the required body and form parameters the request lacks, in the order
\* of the handler's signature
Lacking(req) ==
    SelectSeq(Params(req.endpoint),
              LAMBDA d : d.in \in {"body", "form"} /\ d.required
                            /\ ~Carries(req, d))

\* C3: when two or more required fields of login, create_file or
\* update_item are missing, the 422 body holds exactly one "missing" entry
\* for each of them, in the order of the handler's signature.
C3_AllMissingInOrder ==
    \A c \in Conns :
        (Responded(c)
            /\ conns[c].request.endpoint
                    \in {"login", "create_file", "update_item"}
            /\ Len(Lacking(conns[c].request)) >= 2)
        => /\ conns[c].response.status_code = 422
           /\ SelectSeq(Detail(c),
                        LAMBDA e : e.type = "value_error.missing"
                                      /\ Len(e.loc) = 2)
                = [i \in 1..Len(Lacking(conns[c].request)) |->
                      Err(<<"body", Lacking(conns[c].request)[i].alias>>,
                          "value_error.missing")]

C3_Witness ==
    \E c \in Conns :
        /\ Responded(c)
        /\ conns[c].request.endpoint = "create_file"
        /\ conns[c].request.form = <<>>
        /\ Len(Detail(c)) = 3
        /\ Detail(c)[1].loc = <<"body", "file">>
        /\ Detail(c)[2].loc = <<"body", "fileb">>
        /\ Detail(c)[3].loc = <<"body", "token">>

\* C4: the HTTPException read_item raises for item_id 10..19 is handled by
\* custom_http_exception_handler, registered for its parent class: the
\* handler prints its line and the response has status 404, the body
\* {"detail": "Item not found"} and the header X-Error.
C4_HttpExceptionEnvelope ==
    \A c \in Conns :
        (ReadItemConn(c) /\ Responded(c) /\ BoundCall(c)
            /\ conns[c].values["item_id"] \in 10..19)
        => /\ conns[c].printed = <<"OMG! An HTTP error!">>
           /\ conns[c].response.status_code = 404
           /\ conns[c].response.body = [detail |-> "Item not found"]
           /\ conns[c].response.headers
                = {Pair("X-Error", "There goes my error")}

C4_Witness ==
    \E c \in Conns :
        /\ ReadItemConn(c) /\ Responded(c)
        /\ PathText(c) = <<"1", "2">>
        /\ conns[c].response.status_code = 404

KekLol(c) ==
    SelectSeq(conns[c].request.query, LAMBDA p : p.name = "kek-lol")

\* C5: needy is bound from the query parameters named kek-lol and from no
\* other: without a kek-lol the request is rejected with "missing" at
\* ["query", "kek-lol"] whatever needy=... it carries, and a bound needy is
\* the list of all kek-lol values in order of appearance.
C5_AliasOnly ==
    \A c \in Conns :
        ReadItemConn(c)
        => /\ (KekLol(c) = <<>> /\ Responded(c))
                => /\ conns[c].response.status_code = 422
                   /\ \E i \in EntriesAt(c, <<"query", "kek-lol">>) :
                        Detail(c)[i].type = "value_error.missing"
           /\ BoundCall(c)
                => conns[c].values["needy"]
                    = [i \in 1..Len(KekLol(c)) |-> KekLol(c)[i].value]

C5_Witness ==
    \E c \in Conns :
        /\ ReadItemConn(c) /\ BoundCall(c)
        /\ conns[c].request.query
            = <<Pair("kek-lol", <<"2">>), Pair("needy", <<"1">>),
                Pair("kek-lol", <<"1">>)>>
        /\ conns[c].values["needy"] = << <<"2">>, <<"1">> >>

Endpoint(c) == conns[c].request.endpoint

\* the JSON object sent as the body, the empty object when none was sent
BodyObj(c) ==
    IF conns[c].request.body # None /\ conns[c].request.body[1].kind = "obj"
    THEN conns[c].request.body[1].o
    ELSE EmptyObj

\* a body whose keys are names of body parameters
KeyedShape(c) ==
    /\ conns[c].request.body # None
    /\ DOMAIN BodyObj(c) \subseteq {"item", "user", "importance", "user_in"}

\* a body whose keys are fields of the model UserIn or Item
DirectShape(c) ==
    /\ conns[c].request.body # None
    /\ DOMAIN BodyObj(c)
        \subseteq {"username", "email", "full_name", "password",
                   "name", "description", "price", "tax"}

\* C6: update_item and create_item read every body parameter under its own
\* key of the JSON object, create_user takes the whole JSON object as
\* user_in; a body keyed by parameter names never binds in create_user and
\* a body that is the model object itself never binds in update_item or
\* create_item.
C6_EmbeddedOrWhole ==
    \A c \in Conns :
        /\ (Endpoint(c) \in {"update_item", "create_item"} /\ BoundCall(c))
            => /\ "item" \in DOMAIN BodyObj(c)
               /\ "price" \in DOMAIN BodyObj(c)["item"].o
               /\ CoerceInt(BodyObj(c)["item"].o["price"])
                    = Some(conns[c].values["item"]["price"])
               /\ ~DirectShape(c)
        /\ (Endpoint(c) = "update_item" /\ BoundCall(c))
            => /\ {"user", "importance"} \subseteq DOMAIN BodyObj(c)
               /\ BodyObj(c)["importance"].n = conns[c].values["importance"]
               /\ CoerceStr(BodyObj(c)["user"].o["username"])
                    = Some(conns[c].values["user"]["username"])
        /\ (Endpoint(c) = "create_user" /\ BoundCall(c))
            => /\ {"username", "email", "password"}
                    \subseteq DOMAIN BodyObj(c)
               /\ CoerceStr(BodyObj(c)["password"])
                    = Some(conns[c].values["user_in"]["password"])
               /\ ~KeyedShape(c)

C6_Witness ==
    \E c \in Conns :
        /\ Endpoint(c) = "create_user" /\ Responded(c)
        /\ DOMAIN BodyObj(c) = {"user_in"}
        /\ BodyObj(c)["user_in"] = JObj(ValidUserIn)
        /\ conns[c].response.status_code = 422

\* the JSON number sent for importance and for the price of item, None
\* when the body carries none
SentImportance(c) ==
    IF "importance" \in DOMAIN BodyObj(c)
          /\ BodyObj(c)["importance"].kind = "num"
    THEN Some(BodyObj(c)["importance"].n)
    ELSE None

SentPrice(c) ==
    IF "item" \in DOMAIN BodyObj(c)
          /\ BodyObj(c)["item"].kind = "obj"
          /\ "price" \in DOMAIN BodyObj(c)["item"].o
          /\ BodyObj(c)["item"].o["price"].kind = "num"
    THEN Some(BodyObj(c)["item"].o["price"].n)
    ELSE None

OneNotGtAt(c, loc) ==
    /\ Cardinality(EntriesAt(c, loc)) = 1
    /\ \A i \in EntriesAt(c, loc) :
            Detail(c)[i].type = "value_error.number.not_gt"

\* C7: an importance <= 5 (gt=5) and an item price <= 0 (gt=0) each give
\* exactly one entry at their own location in the 422 body, whatever else
\* fails in the same request.
C7_OneErrorPerGt ==
    \A c \in Conns :
        (Responded(c) /\ Endpoint(c) \in {"update_item", "create_item"})
        => /\ (Endpoint(c) = "update_item" /\ SentImportance(c) # None
                    /\ SentImportance(c)[1] <= 5)
                => /\ conns[c].response.status_code = 422
                   /\ OneNotGtAt(c, <<"body", "importance">>)
           /\ (SentPrice(c) # None /\ SentPrice(c)[1] <= 0)
                => /\ conns[c].response.status_code = 422
                   /\ OneNotGtAt(c, <<"body", "item", "price">>)

C7_Witness ==
    \E c \in Conns :
        /\ Responded(c) /\ Endpoint(c) = "update_item"
        /\ SentImportance(c) = Some(5)
        /\ SentPrice(c) = Some(0)
        /\ PathText(c) = <<"x">>
        /\ OneNotGtAt(c, <<"body", "importance">>)
        /\ OneNotGtAt(c, <<"body", "item", "price">>)
        /\ Len(Detail(c)) > 2

\* the request served with nothing else running, from the state at startup
RECURSIVE RunAlone(_)
RunAlone(conn) ==
    CASE conn.pc = "responded" -> conn
      [] conn.pc = "received" -> RunAlone(BindStep(conn))
      [] conn.pc = "raised" -> RunAlone(DispatchStep(conn, AppHandlers))
      [] conn.pc = "server_error" -> RunAlone(ServerErrorStep(conn))
      [] conn.pc = "l205" -> RunAlone(read_item_build(conn))
      [] conn.pc = "l206" -> RunAlone(read_item_q(conn))
      [] conn.pc = "l208" -> RunAlone(read_item_short(conn))
      [] conn.pc = "l212" -> RunAlone(read_item_return(conn))
      [] conn.pc = "call" ->
            RunAlone(
                CASE conn.request.endpoint = "read_item" ->
                        read_item_check(conn)
                  [] conn.request.endpoint = "read_items" ->
                        read_items(conn, <<"Foo", "Bar", "Baz">>)
                  [] conn.request.endpoint = "create_item" ->
                        create_item(conn)
                  [] conn.request.endpoint = "update_item" ->
                        update_item(conn)
                  [] conn.request.endpoint = "create_user" ->
                        create_user(conn)
                  [] conn.request.endpoint = "login" -> login(conn)
                  [] conn.request.endpoint = "create_file" ->
                        create_file(conn))

\* C9: whatever the interleaving, fake_items_db and the handler registry
\* stay as they were at startup, and a request's bound arguments and
\* response are those it gets when it runs alone.
C9_NoSharedMutation ==
    /\ fake_items_db = <<"Foo", "Bar", "Baz">>
    /\ exception_handlers = AppHandlers
    /\ \A c \in Conns :
        Responded(c)
        => /\ conns[c].response = RunAlone(Accept(conns[c].request)).response
           /\ DOMAIN conns[c].values
                = DOMAIN RunAlone(Accept(conns[c].request)).values
           /\ \A k \in DOMAIN conns[c].values :
                conns[c].values[k]
                    = RunAlone(Accept(conns[c].request)).values[k]

C9_Witness ==
    \E c \in Conns, d \in Conns :
        /\ c # d
        /\ Endpoint(c) = "read_items" /\ Responded(c)
        /\ Len(conns[c].response.body) = 3
        /\ Endpoint(d) = "read_items" /\ Responded(d)
        /\ Len(conns[d].response.body) = 1

\* C10: a bound call of read_item has 10 <= item_id < 1000 and exactly one
\* outcome, decided by item_id: 10..19 raise HTTPException 404, 20 raises
\* UnicornException, 21..999 return an item with item_id and needy, with q
\* iff q is a non-empty string and description iff short is false; a call
\* that raised builds and returns no item.
C10_ReadItemOutcome ==
    \A c \in Conns :
        (ReadItemConn(c) /\ BoundCall(c))
        => LET id == conns[c].values["item_id"]
               raised == conns[c].exc.cls # ""
           IN  /\ id \in 10..999
               /\ raised => /\ DOMAIN conns[c].item = {}
                            /\ conns[c].response.status_code # 200
               /\ id \in 10..19
                    => /\ conns[c].pc \in {"call", "raised", "responded"}
                       /\ conns[c].pc # "call"
                            => /\ conns[c].exc.cls = "HTTPException"
                               /\ conns[c].exc.attrs.status_code = 404
               /\ id = 20
                    => /\ conns[c].pc \in {"call", "raised", "server_error",
                                           "responded"}
                       /\ conns[c].pc # "call" => raised
                       /\ conns[c].pc = "raised"
                            => conns[c].exc = UnicornException(20)
               /\ id \in 21..999
                    => /\ ~raised
                       /\ Responded(c)
                            => /\ conns[c].response.status_code = 200
                               /\ conns[c].response.body = conns[c].item
                               /\ {"item_id", "needy"}
                                    \subseteq DOMAIN conns[c].item
                               /\ conns[c].item["item_id"] = id
                               /\ conns[c].item["needy"]
                                    = conns[c].values["needy"]
                               /\ "q" \in DOMAIN conns[c].item
                                    <=> Truthy(conns[c].values["q"])
                               /\ "description" \in DOMAIN conns[c].item
                                    <=> ~conns[c].values["short"]

C10_Witness ==
    \E c \in Conns :
        /\ ReadItemConn(c) /\ Responded(c) /\ BoundCall(c)
        /\ conns[c].values["item_id"] = 21
        /\ DOMAIN conns[c].item = {"item_id", "needy", "q"}
        /\ conns[c].item["q"] = <<"a", "b">>

====
